---------------------------- MODULE Spec2Model ----------------------------
(***************************************************************************)
(* tini: a tiny ini-file library.  The model covers the ordered hash map   *)
(* (src/src/ordered_hashmap.rs), the line parser (src/src/parser.rs), the  *)
(* escaping tokenizer (src/src/tokenizer.rs) and the Ini document with its *)
(* builder, parser loop, serializer and accessors (src/src/lib.rs).        *)
(*                                                                         *)
(* A Rust String is a sequence of one-character strings.  Option<T> is the *)
(* empty sequence (None) or a one-element sequence (Some).                 *)
(***************************************************************************)
EXTENDS Integers, Sequences, FiniteSets, TLC

VARIABLES
    data,               \* Ini.data: OrderedHashMap<String, Section>
    last_section_name,  \* Ini.last_section_name
    header,             \* history: Option<String>, the name given to the
                        \* most recent section() call of the builder
    calls,              \* history: the builder's item() calls so far, each
                        \* with the header in force when it was made
    ret,                \* what Section::insert returned inside the builder's
                        \* last item() call
    pc,                 \* position of the driving program
    muts,               \* number of full iter_mut traversals made
    out,                \* Option<String>: result of to_buffer()
    reread,             \* Option<Ini>: result of from_buffer(out)
    input,              \* the text handed to from_string
    lineIdx,            \* from_string: enumerate() index of the next line
    log,                \* from_string: diagnostics printed, <<index, message>>
    raw,                \* the raw value a vector accessor / tokenizer works on
    vec,                \* Option<Option<Vec<String>>>: result of get_vec
    tokIndex,           \* Tokenizer.index
    tokens,             \* tokens yielded by Tokenizer::next so far
    tokDone,            \* Tokenizer::next has returned None
    tokPanic,           \* Tokenizer::next has panicked (a str slice off a
                        \* character boundary)
    omap,               \* a stand-alone OrderedHashMap<String, String>
    oprev,              \* history: omap before the last operation on it
    lastOp,             \* history: Option of the last operation on omap
    typed,              \* Option of the last typed access and its result
    given,              \* Option of the vector handed to item_vec(_with_sep)
    back,               \* Option of what get_vec(_with_sep) then returned
    pline,              \* the line handed to parse_line
    parsed              \* Option<Parsed>: what parse_line returned

vars == <<data, last_section_name, header, calls, ret, pc, muts, out, reread,
          input, lineIdx, log, raw, vec, tokIndex, tokens, tokDone, tokPanic,
          omap, oprev, lastOp, typed, given, back, pline, parsed>>

builderVars == <<header, calls, ret, muts, out, reread>>
parseVars   == <<input, lineIdx, log>>
vecVars     == <<raw, vec, tokIndex, tokens, tokDone, tokPanic>>
mapVars     == <<omap, oprev, lastOp>>
extVars     == <<mapVars, typed, given, back, pline, parsed>>

---------------------------------------------------------------------------
(* Bounds of the model *)

MaxCalls == 3      \* item() calls per run of the builder
MaxMut   == 1      \* iter_mut traversals per run
MaxLines == 3      \* lines of a parsed text
MaxRaw   == 4      \* characters of a raw list value
MaxElemLen == 1    \* characters of one element given to item_vec
MaxVecLen == 2     \* elements of a vector given to item_vec
MaxMapOps == 4     \* insert / entry operations on one OrderedHashMap
MaxLineLen == 4    \* characters of a line given to parse_line

---------------------------------------------------------------------------
(* Option and String helpers (Rust std) *)

None == <<>>
Some(v) == <<v>>

NL == "\n"
SP == " "
CR == "\r"
TAB == "\t"
BSL == "\\"

\* char::is_whitespace, on the characters the model uses
IsWhitespace(c) == c \in {SP, TAB, NL, CR}

RECURSIVE trim_start(_)
trim_start(s) ==
    IF s # <<>> /\ IsWhitespace(Head(s)) THEN trim_start(Tail(s)) ELSE s

RECURSIVE trim_end(_)
trim_end(s) ==
    IF s # <<>> /\ IsWhitespace(s[Len(s)])
    THEN trim_end(SubSeq(s, 1, Len(s) - 1)) ELSE s

\* str::trim
trim(s) == trim_end(trim_start(s))

\* str::trim_matches with a set of characters
RECURSIVE trim_matches(_, _)
trim_matches(s, cs) ==
    IF s # <<>> /\ Head(s) \in cs THEN trim_matches(Tail(s), cs)
    ELSE IF s # <<>> /\ s[Len(s)] \in cs
         THEN trim_matches(SubSeq(s, 1, Len(s) - 1), cs)
         ELSE s

\* position of the first occurrence of character c in s, 0 when absent
find(s, c) ==
    IF \E i \in 1..Len(s) : s[i] = c
    THEN CHOOSE i \in 1..Len(s) : s[i] = c /\ \A j \in 1..(i - 1) : s[j] # c
    ELSE 0

contains(s, c) == find(s, c) # 0
starts_with(s, c) == s # <<>> /\ Head(s) = c
ends_with(s, c) == s # <<>> /\ s[Len(s)] = c

\* str::split(c).next(): the text before the first c (the whole text if none)
split_first(s, c) ==
    IF contains(s, c) THEN SubSeq(s, 1, find(s, c) - 1) ELSE s

\* str::splitn(2, c): one or two pieces, cut at the first c only
splitn2_at_last(s, c) ==
    LET p == CHOOSE i \in 0..Len(s) :
                 /\ i # 0 => s[i] = c
                 /\ \A j \in (i + 1)..Len(s) : s[j] # c
    IN IF p # 0 THEN <<SubSeq(s, 1, p - 1), SubSeq(s, p + 1, Len(s))>>
       ELSE <<s>>

splitn2(s, c) ==
    IF contains(s, c)
    THEN <<SubSeq(s, 1, find(s, c) - 1), SubSeq(s, find(s, c) + 1, Len(s))>>
    ELSE <<s>>

\* position (1-based) of the first occurrence of the string sep in s at or
\* after position from, 0 when absent
find_str(s, sep, from) ==
    LET hit(i) == SubSeq(s, i, i + Len(sep) - 1) = sep
        cand == {i \in from..(Len(s) - Len(sep) + 1) : hit(i)}
    IN IF cand = {} THEN 0
       ELSE CHOOSE i \in cand : \A j \in cand : i <= j

\* str::split(sep) for a non-empty separator string: every piece, the
\* empty ones and the one after a trailing separator included
RECURSIVE split(_, _)
split(s, sep) ==
    LET p == find_str(s, sep, 1)
    IN IF p = 0 THEN <<s>>
       ELSE <<SubSeq(s, 1, p - 1)>>
            \o split(SubSeq(s, p + Len(sep), Len(s)), sep)

\* String::pop: drops the last character, nothing on an empty string
pop(s) == IF s = <<>> THEN s ELSE SubSeq(s, 1, Len(s) - 1)

RECURSIVE concat(_)
concat(ss) == IF ss = <<>> THEN <<>> ELSE Head(ss) \o concat(Tail(ss))

\* [String]::join(sep)
RECURSIVE join(_, _)
join(ss, sep) ==
    IF ss = <<>> THEN <<>>
    ELSE IF Len(ss) = 1 THEN ss[1]
    ELSE ss[1] \o sep \o join(Tail(ss), sep)

\* str::lines: pieces ended by "\n" (the final line ending is optional),
\* each with one trailing "\r" removed
RECURSIVE lines(_)
lines(s) ==
    IF s = <<>> THEN <<>>
    ELSE LET p == find(s, NL)
             piece == IF p = 0 THEN s ELSE SubSeq(s, 1, p - 1)
             line == IF ends_with(piece, CR) /\ p # 0 THEN pop(piece)
                     ELSE piece
             rest == IF p = 0 THEN <<>> ELSE SubSeq(s, p + 1, Len(s))
         IN <<line>> \o lines(rest)

---------------------------------------------------------------------------
(* OrderedHashMap (src/src/ordered_hashmap.rs): a hash map `base` plus the *)
(* vector `order` of keys.  A HashMap is a function on its key set.        *)

EmptyMap == [x \in {} |-> x]

\* HashMap::insert's effect on the map
Put(base, k, v) ==
    [x \in DOMAIN base \cup {k} |-> IF x = k THEN v ELSE base[x]]

OrderedHashMap_new == [base |-> EmptyMap, order |-> <<>>]

\* OrderedHashMap::get
get(m, k) == IF k \in DOMAIN m.base THEN Some(m.base[k]) ELSE None

\* insert, wrongly keeping the value of a key that is present
insert_keeps_old(m, k, v) ==
    [map |-> [base |-> IF k \in DOMAIN m.base THEN m.base
                       ELSE Put(m.base, k, v),
              order |-> Append(m.order, k)],
     ret |-> IF k \in DOMAIN m.base THEN Some(m.base[k]) ELSE None]

\* OrderedHashMap::insert: the map afterwards and the value returned
insert(m, k, v) ==
    [map |-> [base |-> Put(m.base, k, v), order |-> Append(m.order, k)],
     ret |-> IF k \in DOMAIN m.base THEN Some(m.base[k]) ELSE None]

\* OrderedHashMap::entry(key): pushes the key, hands out the HashMap entry
entry(m, key) == [base |-> m.base, order |-> Append(m.order, key)]

\* Entry::or_insert_with(default) on the entry for key
or_insert_with(m, key, default) ==
    IF key \in DOMAIN m.base THEN m
    ELSE [base |-> Put(m.base, key, default), order |-> m.order]

\* Iter::next until None: walks the order vector, resolves each key in the
\* base map, and ends at the first key the base map does not hold
RECURSIVE iter_from(_, _)
iter_from(m, i) ==
    IF i > Len(m.order) THEN <<>>
    ELSE IF m.order[i] \notin DOMAIN m.base THEN <<>>
    ELSE <<<<m.order[i], m.base[m.order[i]]>>>> \o iter_from(m, i + 1)

\* OrderedHashMap::iter collected: the (key, value) pairs yielded
iter(m) == iter_from(m, 1)

\* keys of the pairs yielded by iter()
keys(m) == [i \in 1..Len(iter(m)) |-> iter(m)[i][1]]

\* Digits and decimal formatting: what str::parse::<i32> and format!("{}")
\* do on the values the model uses
Digits == <<"0", "1", "2", "3", "4", "5", "6", "7", "8", "9">>
IsDigit(c) == \E d \in 1..10 : Digits[d] = c
DigitVal(c) == (CHOOSE d \in 1..10 : Digits[d] = c) - 1

RECURSIVE digits_value(_)
digits_value(s) ==
    IF s = <<>> THEN 0
    ELSE 10 * digits_value(SubSeq(s, 1, Len(s) - 1)) + DigitVal(s[Len(s)])

\* i32::MAX, the range of the i32 the closure parses into
I32_MAX == 2147483647

\* str::parse::<i32>: an optional sign, then one or more digits, in range
parse_i32(s) ==
    LET signed == s # <<>> /\ Head(s) \in {"+", "-"}
        body == IF signed THEN Tail(s) ELSE s
        n == digits_value(body)
    IN IF body = <<>> \/ \E i \in 1..Len(body) : ~IsDigit(body[i]) THEN None
       ELSE IF s[1] = "-"
            THEN (IF n - 1 > I32_MAX THEN None ELSE Some(0 - n))
            ELSE (IF n > I32_MAX THEN None ELSE Some(n))

RECURSIVE format_nat(_)
format_nat(n) ==
    IF n < 10 THEN <<Digits[n + 1]>>
    ELSE format_nat(n \div 10) \o <<Digits[(n % 10) + 1]>>

\* format!("{}", n) for an integer
format_int(n) == IF n < 0 THEN <<"-">> \o format_nat(0 - n) ELSE format_nat(n)

\* the closure of library_test::mutating applied to one visited value:
\* parse as i32, add one, format back (the run never visits another value)
mutate(v) == format_int(parse_i32(v)[1] + 1)

\* IterMut::next until None over a Section, the caller replacing each
\* yielded value by mutate(value): the section after the traversal
RECURSIVE section_iter_mut(_, _)
section_iter_mut(m, i) ==
    IF i > Len(m.order) THEN m
    ELSE section_iter_mut(
           [base |-> Put(m.base, m.order[i], mutate(m.base[m.order[i]])),
            order |-> m.order], i + 1)

---------------------------------------------------------------------------
(* Line parser (src/src/parser.rs) *)

Parsed_Empty == [tag |-> "Empty", name |-> <<>>, value |-> <<>>, msg |-> ""]
Parsed_Section(n) ==
    [tag |-> "Section", name |-> n, value |-> <<>>, msg |-> ""]
Parsed_Value(k, v) == [tag |-> "Value", name |-> k, value |-> v, msg |-> ""]
Parsed_Error(m) == [tag |-> "Error", name |-> <<>>, value |-> <<>>, msg |-> m]

parse_line(line) ==
    LET content == trim(split_first(line, ";"))
        pair == [i \in 1..Len(splitn2(content, "=")) |->
                    trim(splitn2(content, "=")[i])]
        key == pair[1]
        value == IF Len(pair) >= 2 THEN pair[2] ELSE <<>>
    IN IF content = <<>> THEN Parsed_Empty
       ELSE IF starts_with(content, "[")
            THEN IF ends_with(content, "]")
                 THEN Parsed_Section(trim_matches(content, {"[", "]"}))
                 ELSE Parsed_Error("incorrect section syntax")
       ELSE IF contains(content, "=")
            THEN IF key = <<>> THEN Parsed_Error("empty key")
                 ELSE Parsed_Value(key, value)
       ELSE Parsed_Error("incorrect syntax")

---------------------------------------------------------------------------
(* Escaping tokenizer (src/src/tokenizer.rs).  Indices are 0-based as in   *)
(* the source; the character at index i is s[i + 1].                       *)

SEPARATOR == ","
ESCAPE == BSL

\* the while loop of Tokenizer::next started at index i: the index of the
\* separator it breaks at, or -1 when the characters run out
RECURSIVE next_scan(_, _)
next_scan(s, i) ==
    IF i >= Len(s) THEN 0 - 1
    ELSE IF s[i + 1] = SEPARATOR THEN i
    ELSE IF s[i + 1] = ESCAPE
         THEN (IF i + 1 < Len(s) THEN next_scan(s, i + 2)
               ELSE next_scan(s, i + 1))
    ELSE next_scan(s, i + 1)

\* a character that takes two bytes in UTF-8; every other character of
\* the model takes one
EACUTE == "é"
len_utf8(c) == IF c = EACUTE THEN 2 ELSE 1

\* the byte offset at which the character after the first n ones starts
RECURSIVE byte_offset(_, _)
byte_offset(s, n) ==
    IF n = 0 THEN 0 ELSE byte_offset(s, n - 1) + len_utf8(s[n])

\* str::len: the length in bytes
str_len(s) == byte_offset(s, Len(s))

\* str::is_char_boundary
is_char_boundary(s, b) == \E n \in 0..Len(s) : byte_offset(s, n) = b

\* &s[from..to] with byte offsets: Some(slice), or None where the indexing
\* panics (an offset out of range or inside a character)
str_slice(s, from, to) ==
    IF from <= to /\ is_char_boundary(s, from) /\ is_char_boundary(s, to)
    THEN LET n1 == CHOOSE n \in 0..Len(s) : byte_offset(s, n) = from
             n2 == CHOOSE n \in 0..Len(s) : byte_offset(s, n) = to
         IN Some(SubSeq(s, n1 + 1, n2))
    ELSE None

\* Tokenizer::next on the tokenizer [string, index]: the Option returned,
\* the index afterwards, and whether the call panicked.  The loop counts
\* characters from index (chars().skip(index)); the slices and max_len
\* count bytes.
Tokenizer_next(string, index) ==
    LET at == next_scan(string, index)
        max_len == str_len(string)
        cut == IF at >= 0 THEN str_slice(string, index, at)
               ELSE str_slice(string, index, max_len)
    IN IF at >= 0
       THEN IF cut = None
            THEN [result |-> None, index |-> index, panic |-> TRUE]
            ELSE [result |-> Some(trim(cut[1])), index |-> at + 1,
                  panic |-> FALSE]
       ELSE IF index < max_len
       THEN IF cut = None
            THEN [result |-> None, index |-> index, panic |-> TRUE]
            ELSE [result |-> Some(trim(cut[1])), index |-> max_len,
                  panic |-> FALSE]
       ELSE [result |-> None, index |-> index, panic |-> FALSE]

---------------------------------------------------------------------------
(* Ini (src/src/lib.rs).  An Ini value is [data, last_section_name].       *)

Ini_new == [data |-> OrderedHashMap_new, last_section_name |-> <<>>]

\* section, wrongly creating the section it names
section_creates(ini, name) ==
    [data |-> or_insert_with(entry(ini.data, name), name, OrderedHashMap_new),
     last_section_name |-> name]

\* Ini::section
section(ini, name) == [data |-> ini.data, last_section_name |-> name]

\* the Section::insert call inside Ini::item: on the section got or created
\* for the cursor
item_insert(ini, name, value) ==
    LET cur == ini.last_section_name
        d1 == or_insert_with(entry(ini.data, cur), cur, OrderedHashMap_new)
    IN insert(d1.base[cur], name, value)

\* item, wrongly storing into the section named "" whatever the cursor
item_ignores_cursor(ini, name, value) ==
    LET cur == <<>>
        d1 == or_insert_with(entry(ini.data, cur), cur, OrderedHashMap_new)
    IN [data |-> [base |-> Put(d1.base, cur,
                               insert(d1.base[cur], name, value).map),
                  order |-> d1.order],
        last_section_name |-> ini.last_section_name]

\* Ini::item
item(ini, name, value) ==
    LET cur == ini.last_section_name
        d1 == or_insert_with(entry(ini.data, cur), cur, OrderedHashMap_new)
    IN [data |-> [base |-> Put(d1.base, cur, item_insert(ini, name, value).map),
                  order |-> d1.order],
        last_section_name |-> cur]

\* format!("{}", v) of each element: a &str is written as it is
format_all(vector) == [i \in 1..Len(vector) |-> vector[i]]

\* Ini::item_vec_with_sep
item_vec_with_sep(ini, name, vector, sep) ==
    LET vector_data == join(format_all(vector), sep)
        cur == ini.last_section_name
        d1 == or_insert_with(entry(ini.data, cur), cur, OrderedHashMap_new)
    IN [data |-> [base |-> Put(d1.base, cur,
                               insert(d1.base[cur], name, vector_data).map),
                  order |-> d1.order],
        last_section_name |-> cur]

\* Ini::item_vec
item_vec(ini, name, vector) == item_vec_with_sep(ini, name, vector, <<",", SP>>)

\* Ini::get_raw
get_raw(ini, sec, key) ==
    IF get(ini.data, sec) = None THEN None ELSE get(get(ini.data, sec)[1], key)

\* Ini::iter collected: <<section name, the pairs its iterator yields>>
Ini_iter(ini) ==
    [i \in 1..Len(iter(ini.data)) |->
        <<iter(ini.data)[i][1], iter(iter(ini.data)[i][2])>>]

\* IniIterMut::next until None, the caller running every yielded section
\* iterator to its end with the closure mutate: the data afterwards
RECURSIVE Ini_iter_mut(_, _)
Ini_iter_mut(d, i) ==
    IF i > Len(d.order) THEN d
    ELSE Ini_iter_mut(
           [base |-> Put(d.base, d.order[i],
                         section_iter_mut(d.base[d.order[i]], 1)),
            order |-> d.order], i + 1)

\* one section as Display writes it: "[name]\n", "key = value\n" per pair,
\* then "\n"
fmt_section(entry_) ==
    <<"[">> \o entry_[1] \o <<"]", NL>>
    \o concat([j \in 1..Len(entry_[2]) |->
                 entry_[2][j][1] \o <<SP, "=", SP>> \o entry_[2][j][2] \o <<NL>>])
    \o <<NL>>

\* impl Display for Ini / Ini::to_buffer
to_buffer(ini) ==
    pop(pop(concat([i \in 1..Len(Ini_iter(ini)) |-> fmt_section(Ini_iter(ini)[i])])))

\* the loop body, wrongly dropping the current section on a malformed line
from_string_line_resets(st, i, line) ==
    LET p == parse_line(line)
    IN IF p.tag = "Section"
       THEN [ini |-> section(st.ini, p.name), log |-> st.log]
       ELSE IF p.tag = "Value"
       THEN [ini |-> item(st.ini, p.name, p.value), log |-> st.log]
       ELSE IF p.tag = "Error"
       THEN [ini |-> section(st.ini, <<>>),
             log |-> Append(st.log, <<i, p.msg>>)]
       ELSE st

\* the body of the loop of Ini::from_string on line number i: the Ini and
\* the diagnostics afterwards
from_string_line(st, i, line) ==
    LET p == parse_line(line)
    IN IF p.tag = "Section"
       THEN [ini |-> section(st.ini, p.name), log |-> st.log]
       ELSE IF p.tag = "Value"
       THEN [ini |-> item(st.ini, p.name, p.value), log |-> st.log]
       ELSE IF p.tag = "Error"
       THEN [ini |-> st.ini, log |-> Append(st.log, <<i, p.msg>>)]
       ELSE st

RECURSIVE from_string_loop(_, _, _)
from_string_loop(st, ls, i) ==
    IF i >= Len(ls) THEN st
    ELSE from_string_loop(from_string_line(st, i, ls[i + 1]), ls, i + 1)

\* Ini::from_string / Ini::from_buffer
from_string(string) ==
    from_string_loop([ini |-> Ini_new, log |-> <<>>], lines(string), 0)

\* <T as FromStr>::from_str(s).ok() for the target types of the model:
\* String never fails, i32 parses a decimal integer
from_str(T, s) == IF T = "String" THEN Some(s) ELSE parse_i32(s)

\* Ini::get::<T>
get_T(ini, sec, key, T) ==
    IF get_raw(ini, sec, key) = None THEN None
    ELSE from_str(T, get_raw(ini, sec, key)[1])

\* collect, wrongly leaving out the tokens that fail to parse
RECURSIVE collect_skips_failures(_, _)
collect_skips_failures(T, pieces) ==
    IF pieces = <<>> THEN Some(<<>>)
    ELSE IF from_str(T, Head(pieces)) = None
         THEN collect_skips_failures(T, Tail(pieces))
         ELSE Some(<<from_str(T, Head(pieces))[1]>>
                   \o collect_skips_failures(T, Tail(pieces))[1])

\* .map(|s| s.parse()).collect::<Result<Vec<T>, _>>().ok() on the trimmed
\* pieces: the first failure makes the whole result None
RECURSIVE collect(_, _)
collect(T, pieces) ==
    IF pieces = <<>> THEN Some(<<>>)
    ELSE IF from_str(T, Head(pieces)) = None THEN None
         ELSE IF collect(T, Tail(pieces)) = None THEN None
         ELSE Some(<<from_str(T, Head(pieces))[1]>>
                   \o collect(T, Tail(pieces))[1])

\* Ini::get_vec_with_sep::<T>
get_vec_with_sep_T(ini, sec, key, sep, T) ==
    IF get_raw(ini, sec, key) = None THEN None
    ELSE LET pieces == split(get_raw(ini, sec, key)[1], sep)
         IN collect(T, [i \in 1..Len(pieces) |-> trim(pieces[i])])

\* Ini::get_vec::<T>
get_vec_T(ini, sec, key, T) == get_vec_with_sep_T(ini, sec, key, <<",">>, T)

\* Ini::get_vec_with_sep::<String>
get_vec_with_sep(ini, sec, key, sep) ==
    get_vec_with_sep_T(ini, sec, key, sep, "String")

\* Ini::get_vec::<String>
get_vec(ini, sec, key) == get_vec_with_sep(ini, sec, key, <<",">>)

---------------------------------------------------------------------------
(* The builder program: section()/item() calls in any order, then full     *)
(* iter_mut traversals, then to_buffer() and from_buffer() of the text.    *)

SectionNames == {<<"a">>, <<"b">>}
KeyNames == {<<"x">>, <<"y">>}
Values == {<<"1">>, <<"2">>}

\* the Ini the builder holds
ini == [data |-> data, last_section_name |-> last_section_name]

IdleParse == input = <<>> /\ lineIdx = 0 /\ log = <<>>
IdleVec == raw = <<>> /\ vec = None /\ tokIndex = 0 /\ tokens = <<>>
           /\ tokDone = FALSE /\ tokPanic = FALSE
IdleMap == omap = [base |-> [x \in {} |-> x], order |-> <<>>]
           /\ oprev = omap /\ lastOp = <<>>
IdleTyped == typed = <<>>
IdleItemVec == given = <<>> /\ back = <<>>
IdleLine == pline = <<>> /\ parsed = <<>>
IdleExt == IdleMap /\ IdleTyped /\ IdleItemVec /\ IdleLine

Init ==
    /\ data = Ini_new.data
    /\ last_section_name = Ini_new.last_section_name
    /\ header = None
    /\ calls = <<>>
    /\ ret = None
    /\ pc = "build"
    /\ muts = 0
    /\ out = None
    /\ reread = None
    /\ IdleParse
    /\ IdleVec
    /\ IdleExt

SectionCall(name) ==
    /\ pc = "build"
    /\ data' = section(ini, name).data
    /\ last_section_name' = section(ini, name).last_section_name
    /\ header' = Some(name)
    /\ UNCHANGED <<calls, ret, pc, muts, out, reread, parseVars, vecVars, extVars>>

ItemCall(name, value) ==
    /\ pc = "build"
    /\ Len(calls) < MaxCalls
    /\ data' = item(ini, name, value).data
    /\ last_section_name' = item(ini, name, value).last_section_name
    /\ ret' = item_insert(ini, name, value).ret
    /\ calls' = Append(calls, [section |-> IF header = None THEN <<>>
                                            ELSE header[1],
                               key |-> name, value |-> value])
    /\ UNCHANGED <<header, pc, muts, out, reread, parseVars, vecVars, extVars>>

\* every stored value parses as i32, so the closure's unwrap() succeeds
AllNumeric ==
    \A s \in DOMAIN data.base : \A k \in DOMAIN data.base[s].base :
        parse_i32(data.base[s].base[k]) # None

IterMutCall ==
    /\ pc \in {"build", "mutate"}
    /\ muts < MaxMut
    /\ AllNumeric
    /\ data' = Ini_iter_mut(data, 1)
    /\ muts' = muts + 1
    /\ pc' = "mutate"
    /\ UNCHANGED <<last_section_name, header, calls, ret, out, reread,
                   parseVars, vecVars, extVars>>

ToBufferCall ==
    /\ pc \in {"build", "mutate"}
    /\ out' = Some(to_buffer(ini))
    /\ pc' = "written"
    /\ UNCHANGED <<data, last_section_name, header, calls, ret, muts, reread,
                   parseVars, vecVars, extVars>>

FromBufferCall ==
    /\ pc = "written"
    /\ reread' = Some(from_string(out[1]).ini)
    /\ pc' = "read"
    /\ UNCHANGED <<data, last_section_name, header, calls, ret, muts, out,
                   parseVars, vecVars, extVars>>

Next ==
    \/ \E name \in SectionNames : SectionCall(name)
    \/ \E name \in KeyNames, value \in Values : ItemCall(name, value)
    \/ IterMutCall
    \/ ToBufferCall
    \/ FromBufferCall

Spec == Init /\ [][Next]_vars

---------------------------------------------------------------------------
(* The parsing program: Ini::from_string on a text, one iteration of its   *)
(* loop per step.                                                          *)

\* the lines a text is made of
LineSet ==
    { <<"[", "a", "]">>, <<"[", "b", "]">>, <<"[", "b">>,
      <<"k", "=", "v">>, <<"k", SP, "=", SP, "w">>, <<"j", "=", "1">>,
      <<"b", "a", "d">>, <<"=", "v">>, <<";", "c">> }

SeqsUpTo(S, n) == UNION {[1..m -> S] : m \in 0..n}

IdleBuilder ==
    /\ header = None /\ calls = <<>> /\ ret = None /\ muts = 0
    /\ out = None /\ reread = None

InitParse ==
    /\ input \in {join(ls, <<NL>>) : ls \in SeqsUpTo(LineSet, MaxLines)}
    /\ data = Ini_new.data
    /\ last_section_name = Ini_new.last_section_name
    /\ lineIdx = 0
    /\ log = <<>>
    /\ pc = "parse"
    /\ IdleBuilder
    /\ IdleVec
    /\ IdleExt

\* one iteration of the for loop of from_string
ParseLineStep ==
    /\ pc = "parse"
    /\ lineIdx < Len(lines(input))
    /\ LET st == from_string_line([ini |-> ini, log |-> log], lineIdx,
                                  lines(input)[lineIdx + 1])
       IN /\ data' = st.ini.data
          /\ last_section_name' = st.ini.last_section_name
          /\ log' = st.log
    /\ lineIdx' = lineIdx + 1
    /\ UNCHANGED <<pc, input, builderVars, vecVars, extVars>>

\* the loop ends and from_string returns
ParseReturn ==
    /\ pc = "parse"
    /\ lineIdx = Len(lines(input))
    /\ pc' = "parsed"
    /\ UNCHANGED <<data, last_section_name, parseVars, builderVars, vecVars, extVars>>

NextParse == ParseLineStep \/ ParseReturn

SpecParse == InitParse /\ [][NextParse]_vars

---------------------------------------------------------------------------
(* The list program: a raw value stored by item(), read back by get_vec,   *)
(* and run through the Tokenizer.                                          *)

RawChars == {"1", SEPARATOR, ESCAPE, SP, EACUTE}
VecSection == <<"s">>
VecKey == <<"k">>

InitVec ==
    /\ raw \in SeqsUpTo(RawChars, MaxRaw)
    /\ data = item(section(Ini_new, VecSection), VecKey, raw).data
    /\ last_section_name = VecSection
    /\ vec = None
    /\ tokIndex = 0
    /\ tokens = <<>>
    /\ tokDone = FALSE
    /\ tokPanic = FALSE
    /\ pc = "vec"
    /\ IdleBuilder
    /\ IdleParse
    /\ IdleExt

GetVecCall ==
    /\ pc = "vec"
    /\ vec = None
    /\ vec' = Some(get_vec(ini, VecSection, VecKey))
    /\ UNCHANGED <<data, last_section_name, pc, raw, tokIndex, tokens,
                   tokDone, tokPanic, builderVars, parseVars, extVars>>

\* one call of Tokenizer::next on Tokenizer::new(raw)
TokenizerNextCall ==
    /\ pc = "vec"
    /\ ~tokDone
    /\ ~tokPanic
    /\ LET r == Tokenizer_next(raw, tokIndex)
       IN /\ tokIndex' = r.index
          /\ tokens' = IF r.result = None THEN tokens
                       ELSE Append(tokens, r.result[1])
          /\ tokDone' = (r.result = None /\ ~r.panic)
          /\ tokPanic' = r.panic
    /\ UNCHANGED <<data, last_section_name, pc, raw, vec, builderVars,
                   parseVars, extVars>>

NextVec == GetVecCall \/ TokenizerNextCall

SpecVec == InitVec /\ [][NextVec]_vars

---------------------------------------------------------------------------
(* The typed-access program: get::<T> and get_vec::<T> on the Ini that     *)
(* holds the raw value, for existing and missing sections and keys.        *)

Types == {"String", "i32"}
AskSections == {VecSection, <<"t">>}
AskKeys == {VecKey, <<"j">>}

GetTypedCall(sec, key, T) ==
    /\ pc = "vec"
    /\ typed' = Some([op |-> "get", sec |-> sec, key |-> key, T |-> T,
                      result |-> get_T(ini, sec, key, T)])
    /\ UNCHANGED <<data, last_section_name, pc, builderVars, parseVars,
                   vecVars, mapVars, given, back, pline, parsed>>

GetVecTypedCall(sec, key, T) ==
    /\ pc = "vec"
    /\ typed' = Some([op |-> "get_vec", sec |-> sec, key |-> key, T |-> T,
                      result |-> get_vec_T(ini, sec, key, T)])
    /\ UNCHANGED <<data, last_section_name, pc, builderVars, parseVars,
                   vecVars, mapVars, given, back, pline, parsed>>

NextTyped ==
    \/ \E sec \in AskSections, key \in AskKeys, T \in Types :
           GetTypedCall(sec, key, T)
    \/ \E sec \in AskSections, key \in AskKeys, T \in Types :
           GetVecTypedCall(sec, key, T)

SpecTyped == InitVec /\ [][NextTyped]_vars

---------------------------------------------------------------------------
(* The vector program of library_test::use_item_vec: a vector is stored    *)
(* with item_vec / item_vec_with_sep and read back with the matching       *)
(* get_vec / get_vec_with_sep.                                             *)

ElemChars == {"a", ",", SP, "|"}
Elems == SeqsUpTo(ElemChars, MaxElemLen)
Vectors == SeqsUpTo(Elems, MaxVecLen)
Seps == {<<",">>, <<"|">>, <<",", SP>>}

InitItemVec ==
    /\ data = section(Ini_new, VecSection).data
    /\ last_section_name = VecSection
    /\ pc = "itemvec"
    /\ IdleBuilder
    /\ IdleParse
    /\ IdleVec
    /\ IdleExt

ItemVecWithSepCall(v, sep) ==
    /\ pc = "itemvec"
    /\ data' = item_vec_with_sep(ini, VecKey, v, sep).data
    /\ given' = Some([op |-> "item_vec_with_sep", v |-> v, sep |-> sep])
    /\ pc' = "stored"
    /\ UNCHANGED <<last_section_name, back, builderVars, parseVars, vecVars,
                   mapVars, typed, pline, parsed>>

ItemVecCall(v) ==
    /\ pc = "itemvec"
    /\ data' = item_vec(ini, VecKey, v).data
    /\ given' = Some([op |-> "item_vec", v |-> v, sep |-> <<",", SP>>])
    /\ pc' = "stored"
    /\ UNCHANGED <<last_section_name, back, builderVars, parseVars, vecVars,
                   mapVars, typed, pline, parsed>>

GetVecWithSepBack ==
    /\ pc = "stored"
    /\ given[1].op = "item_vec_with_sep"
    /\ back' = Some(get_vec_with_sep(ini, VecSection, VecKey, given[1].sep))
    /\ pc' = "fetched"
    /\ UNCHANGED <<data, last_section_name, given, builderVars, parseVars,
                   vecVars, mapVars, typed, pline, parsed>>

GetVecBack ==
    /\ pc = "stored"
    /\ given[1].op = "item_vec"
    /\ back' = Some(get_vec(ini, VecSection, VecKey))
    /\ pc' = "fetched"
    /\ UNCHANGED <<data, last_section_name, given, builderVars, parseVars,
                   vecVars, mapVars, typed, pline, parsed>>

NextItemVec ==
    \/ \E v \in Vectors, sep \in Seps : ItemVecWithSepCall(v, sep)
    \/ \E v \in Vectors : ItemVecCall(v)
    \/ GetVecWithSepBack
    \/ GetVecBack

SpecItemVec == InitItemVec /\ [][NextItemVec]_vars

---------------------------------------------------------------------------
(* The map program: insert and entry(..).or_insert_with(..) on one         *)
(* OrderedHashMap created by new(); oprev is the map before the last       *)
(* operation and lastOp the operation.                                     *)

MapKeys == {<<"a">>, <<"b">>, <<"c">>}
MapDefault == <<"0">>

InitMap ==
    /\ data = Ini_new.data
    /\ last_section_name = Ini_new.last_section_name
    /\ pc = "map"
    /\ IdleBuilder
    /\ IdleParse
    /\ IdleVec
    /\ IdleExt

InsertCall(k, v) ==
    /\ pc = "map"
    /\ Len(omap.order) < MaxMapOps
    /\ omap' = insert(omap, k, v).map
    /\ oprev' = omap
    /\ lastOp' = Some([op |-> "insert", k |-> k, v |-> v])
    /\ UNCHANGED <<data, last_section_name, pc, builderVars, parseVars,
                   vecVars, typed, given, back, pline, parsed>>

EntryOrInsertWithCall(k) ==
    /\ pc = "map"
    /\ Len(omap.order) < MaxMapOps
    /\ omap' = or_insert_with(entry(omap, k), k, MapDefault)
    /\ oprev' = omap
    /\ lastOp' = Some([op |-> "entry", k |-> k, v |-> MapDefault])
    /\ UNCHANGED <<data, last_section_name, pc, builderVars, parseVars,
                   vecVars, typed, given, back, pline, parsed>>

NextMap ==
    \/ \E k \in MapKeys, v \in Values : InsertCall(k, v)
    \/ \E k \in MapKeys : EntryOrInsertWithCall(k)

SpecMap == InitMap /\ [][NextMap]_vars

---------------------------------------------------------------------------
(* The line program: parse_line applied to one line.                       *)

LineChars == {"[", "]", "=", ";", SP, "a"}

InitLine ==
    /\ pline \in SeqsUpTo(LineChars, MaxLineLen)
    /\ parsed = None
    /\ data = Ini_new.data
    /\ last_section_name = Ini_new.last_section_name
    /\ pc = "line"
    /\ IdleBuilder
    /\ IdleParse
    /\ IdleVec
    /\ IdleMap
    /\ IdleTyped
    /\ IdleItemVec

ParseLineCall ==
    /\ pc = "line"
    /\ parsed = None
    /\ parsed' = Some(parse_line(pline))
    /\ UNCHANGED <<data, last_section_name, pc, builderVars, parseVars,
                   vecVars, mapVars, typed, given, back, pline>>

NextLine == ParseLineCall

SpecLine == InitLine /\ [][NextLine]_vars

---------------------------------------------------------------------------
(* What the history of builder calls says the Document should hold *)

\* a sequence with every repeated element dropped, first occurrences kept
RECURSIVE FirstOcc(_)
FirstOcc(q) ==
    IF q = <<>> THEN <<>>
    ELSE LET front == SubSeq(q, 1, Len(q) - 1)
         IN IF \E i \in 1..Len(front) : front[i] = q[Len(q)]
            THEN FirstOcc(front)
            ELSE Append(FirstOcc(front), q[Len(q)])

NoRepeat(q) == \A i, j \in 1..Len(q) : i # j => q[i] # q[j]

CallSections == [i \in 1..Len(calls) |-> calls[i].section]

\* the keys given to the item() calls made under header s, in call order
RECURSIVE CallKeysOf(_, _)
CallKeysOf(cs, s) ==
    IF cs = <<>> THEN <<>>
    ELSE IF Head(cs).section = s
         THEN <<Head(cs).key>> \o CallKeysOf(Tail(cs), s)
         ELSE CallKeysOf(Tail(cs), s)

\* the value given by the most recent item() call for (s, k) among cs
RECURSIVE LastValue(_, _, _)
LastValue(cs, s, k) ==
    IF cs = <<>> THEN None
    ELSE IF cs[Len(cs)].section = s /\ cs[Len(cs)].key = k
         THEN Some(cs[Len(cs)].value)
         ELSE LastValue(SubSeq(cs, 1, Len(cs) - 1), s, k)

\* n distinct keys first, then only keys among them
DistinctThenUpdates(q) ==
    \E n \in 0..Len(q) :
        /\ NoRepeat(SubSeq(q, 1, n))
        /\ \A j \in (n + 1)..Len(q) : \E i \in 1..n : q[i] = q[j]

IterNames(i_) == [i \in 1..Len(Ini_iter(i_)) |-> Ini_iter(i_)[i][1]]

---------------------------------------------------------------------------
(* Claims *)

\* C1: iterating the Document yields every section name exactly once, in
\* the order in which the names were first used by an item() call, and the
\* section yielded under a name holds the keys of all item() calls made
\* under that name.
C1_SectionsOnceInFirstOrder ==
    /\ IterNames(ini) = FirstOcc(CallSections)
    /\ \A i \in 1..Len(Ini_iter(ini)) :
         {Ini_iter(ini)[i][2][j][1] : j \in 1..Len(Ini_iter(ini)[i][2])}
           = {calls[c].key : c \in {c \in 1..Len(calls) :
                                      calls[c].section = Ini_iter(ini)[i][1]}}

\* C2: in a section that received N distinct keys and then M updates of
\* present keys, iter() and keys() yield exactly the N keys, each once, in
\* first-insertion order, each paired with its latest value.
C2_SectionIterOrder ==
    muts = 0 =>
      \A s \in DOMAIN data.base :
        DistinctThenUpdates(CallKeysOf(calls, s)) =>
          /\ keys(data.base[s]) = FirstOcc(CallKeysOf(calls, s))
          /\ iter(data.base[s]) =
               [i \in 1..Len(FirstOcc(CallKeysOf(calls, s))) |->
                  <<FirstOcc(CallKeysOf(calls, s))[i],
                    LastValue(calls, s, FirstOcc(CallKeysOf(calls, s))[i])[1]>>]

\* section and key names are non-empty and free of "[", "]", ";" and "="
NameOk(n) == n # <<>> /\ \A i \in 1..Len(n) : n[i] \notin {"[", "]", ";", "="}
NamesOk ==
    \A s \in DOMAIN data.base :
        NameOk(s) /\ \A k \in DOMAIN data.base[s].base : NameOk(k)

\* C3: to_buffer then from_buffer yields a Document that iterates as the
\* original does: same sections in the same order, same keys in the same
\* order in each, same values.
C3_RoundTrip ==
    (pc = "read" /\ NamesOk) => Ini_iter(reread[1]) = Ini_iter(ini)

\* the text the serialization format prescribes for one section: the line
\* [name], then one line "key = value" per key in first-insertion order
SectionText(s) ==
    join(<<<<"[">> \o s \o <<"]">>>>
         \o [j \in 1..Len(FirstOcc(data.base[s].order)) |->
               FirstOcc(data.base[s].order)[j] \o <<SP, "=", SP>>
               \o data.base[s].base[FirstOcc(data.base[s].order)[j]]],
         <<NL>>)

\* every section once, one blank line between consecutive sections, nothing
\* after the last line
DocumentText ==
    join([i \in 1..Len(FirstOcc(data.order)) |->
            SectionText(FirstOcc(data.order)[i])], <<NL, NL>>)

\* C4: to_buffer of a non-empty Document writes each section exactly once,
\* header line then its key lines, a blank line between sections and no
\* trailing newline.
C4_ToBufferText ==
    (out # None /\ DOMAIN data.base # {}) => out[1] = DocumentText

\* C5: after full iter_mut traversals with the incrementing closure every
\* stored value has been incremented exactly once per traversal, and keys
\* and orders are as before.
C5_IterMutOncePerValue ==
    muts > 0 =>
      \A s \in DOMAIN data.base :
        /\ DOMAIN data.base[s].base
             = {CallKeysOf(calls, s)[i] : i \in 1..Len(CallKeysOf(calls, s))}
        /\ \A k \in DOMAIN data.base[s].base :
             data.base[s].base[k]
               = format_int(parse_i32(LastValue(calls, s, k)[1])[1] + muts)


\* the lines of the text that from_string has gone through so far
LinesDone == SubSeq(lines(input), 1, lineIdx)

Malformed(line) == parse_line(line).tag = "Error"

RECURSIVE WithoutMalformed(_)
WithoutMalformed(ls) ==
    IF ls = <<>> THEN <<>>
    ELSE IF Malformed(Head(ls)) THEN WithoutMalformed(Tail(ls))
    ELSE <<Head(ls)>> \o WithoutMalformed(Tail(ls))

\* one report <<0-based index, message>> per malformed line, in line order
RECURSIVE Reports(_, _)
Reports(ls, n) ==
    IF n = 0 THEN <<>>
    ELSE IF Malformed(ls[n])
         THEN Append(Reports(ls, n - 1), <<n - 1, parse_line(ls[n]).msg>>)
         ELSE Reports(ls, n - 1)

\* C6: at every point of the parse, the Document and the cursor are those
\* obtained by parsing the lines read so far with the malformed ones
\* removed (a parse that reports nothing), and every malformed line read
\* has been reported exactly once, with its 0-based index.
C6_MalformedLinesSkipped ==
    LET clean == from_string(join(WithoutMalformed(LinesDone), <<NL>>))
    IN /\ data = clean.ini.data
       /\ last_section_name = clean.ini.last_section_name
       /\ clean.log = <<>>
       /\ log = Reports(LinesDone, Len(LinesDone))

\* "[a]\nbad\nk=v" has been parsed: section a holds only k -> v and line 1
\* was reported
C6_Witness ==
    /\ pc = "parsed"
    /\ input = <<"[", "a", "]", NL, "b", "a", "d", NL, "k", "=", "v">>
    /\ log = <<<<1, "incorrect syntax">>>>
    /\ DOMAIN data.base = {<<"a">>}
    /\ DOMAIN data.base[<<"a">>].base = {<<"k">>}
    /\ get_raw(ini, <<"a">>, <<"k">>) = Some(<<"v">>)

\* C7: every item() call is stored in the section named by the most recent
\* section() call, or in section "" when there was none: each call's
\* section exists, a section holds exactly the keys of the calls made under
\* its name, and the most recent call's value is what its key holds.
C7_ItemStoredUnderHeader ==
    /\ \A c \in 1..Len(calls) : calls[c].section \in DOMAIN data.base
    /\ \A s \in DOMAIN data.base :
         DOMAIN data.base[s].base
           = {CallKeysOf(calls, s)[i] : i \in 1..Len(CallKeysOf(calls, s))}
    /\ (calls # <<>> /\ muts = 0) =>
         get_raw(ini, calls[Len(calls)].section, calls[Len(calls)].key)
           = Some(calls[Len(calls)].value)

\* an item() made before any section() call sits in section "", one made
\* after section("a") sits in section a, and the two do not mix
C7_Witness ==
    /\ Len(calls) = 2
    /\ calls[1].section = <<>> /\ calls[1].key = <<"x">>
    /\ calls[2].section = <<"a">> /\ calls[2].key = <<"y">>
    /\ DOMAIN data.base[<<>>].base = {<<"x">>}
    /\ DOMAIN data.base[<<"a">>].base = {<<"y">>}

\* C8: a step that is a section() call leaves the data as it was and sets
\* the cursor to the name given; a name that no item() call was made under
\* is no section of the Document, every lookup in it is absent, and the
\* text written for a Document without items is the empty string.
C8_SectionOnlyMovesCursor ==
    /\ [][(pc = "build" /\ pc' = "build" /\ calls' = calls)
            => (data' = data /\ last_section_name' = header'[1])]_vars
    /\ [](/\ \A n \in SectionNames \cup {<<>>} :
               (\A c \in 1..Len(calls) : calls[c].section # n)
                 => /\ get(data, n) = None
                    /\ \A k \in KeyNames : get_raw(ini, n, k) = None
          /\ (calls = <<>> /\ out # None) => out[1] = <<>>)

\* Ini::new().section("a").to_buffer() has run
C8_Witness ==
    /\ header = Some(<<"a">>)
    /\ last_section_name = <<"a">>
    /\ calls = <<>>
    /\ out = Some(<<>>)
    /\ get(data, <<"a">>) = None

\* C9: after item() calls alone, the raw value of every (section, key) is
\* the value given by the most recent item() call for it (absent if there
\* was none), and the insert made by the last item() call returned the
\* value stored before it, none if the key was new.
C9_LastWriteWins ==
    /\ muts = 0 =>
         \A s \in SectionNames \cup {<<>>} : \A k \in KeyNames :
             get_raw(ini, s, k) = LastValue(calls, s, k)
    /\ calls # <<>> =>
         ret = LastValue(SubSeq(calls, 1, Len(calls) - 1),
                         calls[Len(calls)].section, calls[Len(calls)].key)

\* a key was given value 1, then value 2: insert returned 1, lookup gives 2
C9_Witness ==
    /\ muts = 0
    /\ Len(calls) >= 2
    /\ calls[Len(calls)].value = <<"2">>
    /\ ret = Some(<<"1">>)
    /\ get_raw(ini, calls[Len(calls)].section, calls[Len(calls)].key)
         = Some(<<"2">>)

\* C10: the tokens get_vec parses are exactly the tokens the Tokenizer
\* yields on the raw value.
C10_GetVecUsesTokenizer ==
    (vec # None /\ tokDone) => vec[1] = Some(tokens)


\* position i of s follows a backslash that escapes it
RECURSIVE IsEscaped(_, _)
IsEscaped(s, i) == i > 1 /\ s[i - 1] = BSL /\ ~IsEscaped(s, i - 1)

\* the positions of the unescaped separators of s
Cuts(s) == {i \in 1..Len(s) : s[i] = "," /\ ~IsEscaped(s, i)}

\* the n-th of the positions cuts, counting from 1; 0 for n = 0
NthCut(cuts, n) ==
    IF n = 0 THEN 0
    ELSE CHOOSE i \in cuts : Cardinality({j \in cuts : j <= i}) = n

\* the trimmed segments of s delimited by the positions cuts, with or
\* without the segment after the last cut
SegmentsBy(s, cuts, withFinal) ==
    LET n == Cardinality(cuts)
        seg(i) == trim(SubSeq(s, NthCut(cuts, i - 1) + 1,
                              IF i <= n THEN NthCut(cuts, i) - 1 ELSE Len(s)))
    IN [i \in 1..(IF withFinal THEN n + 1 ELSE n) |-> seg(i)]

\* the trimmed segments of s delimited by its unescaped separators, the
\* final one left out exactly when s is empty or ends with an unescaped
\* separator
Segments(s) ==
    SegmentsBy(s, Cuts(s), ~(s = <<>> \/ Len(s) \in Cuts(s)))

\* C15: the Tokenizer runs to its end on every string, and the tokens it
\* has yielded by then are the trimmed segments between the unescaped
\* separators, empty ones included, without the final segment exactly when
\* the string is empty or ends with an unescaped separator.
C15_TokenizerSegments ==
    /\ ~tokPanic
    /\ tokDone => tokens = Segments(raw)


\* the tokens the accessor parses: the trimmed pieces of the raw value
\* between its "," characters, the piece after the last one included
Pieces(s) == SegmentsBy(s, {i \in 1..Len(s) : s[i] = ","}, TRUE)

\* C11: a typed access gives a value exactly when the section and key exist
\* and the raw value (for get_vec: every token) parses into the type asked
\* for; get_vec then has the parsed tokens in token order, and is absent,
\* never partial, as soon as one token fails.
C11_TypedAllOrNothing ==
    typed # None =>
      LET q == typed[1]
          exists == q.sec = VecSection /\ q.key = VecKey
          ps == Pieces(raw)
      IN IF q.op = "get"
         THEN q.result = IF exists /\ from_str(q.T, raw) # None
                         THEN Some(from_str(q.T, raw)[1]) ELSE None
         ELSE IF exists /\ \A i \in 1..Len(ps) : from_str(q.T, ps[i]) # None
              THEN /\ q.result # None
                   /\ Len(q.result[1]) = Len(ps)
                   /\ \A i \in 1..Len(ps) :
                        q.result[1][i] = from_str(q.T, ps[i])[1]
              ELSE q.result = None

\* get_vec::<i32> on an existing value of which one token parses and
\* another does not: absent
C11_Witness ==
    /\ typed # None
    /\ typed[1].op = "get_vec" /\ typed[1].T = "i32"
    /\ typed[1].sec = VecSection /\ typed[1].key = VecKey
    /\ \E i, j \in 1..Len(Pieces(raw)) :
         /\ parse_i32(Pieces(raw)[i]) # None
         /\ parse_i32(Pieces(raw)[j]) = None
    /\ typed[1].result = None


\* sub occurs in s as a substring
HasSubstring(s, sub) ==
    \E i \in 1..(Len(s) - Len(sub) + 1) : SubSeq(s, i, i + Len(sub) - 1) = sub

\* C12: a vector none of whose elements contains the separator, stored with
\* item_vec_with_sep (or item_vec) and read back with get_vec_with_sep under
\* the same separator (or get_vec), comes back as the same vector.
C12_VecRoundTrip ==
    (/\ back # None
     /\ \A i \in 1..Len(given[1].v) : ~HasSubstring(given[1].v[i], given[1].sep))
    => back[1] = Some(given[1].v)


\* C13: after any sequence of insert and entry(..).or_insert_with(..) the
\* order sequence has every key exactly once and holds exactly the keys of
\* the hashed mapping, so both have the same size.
C13_OrderMatchesKeys ==
    /\ NoRepeat(omap.order)
    /\ {omap.order[i] : i \in 1..Len(omap.order)} = DOMAIN omap.base
    /\ Len(omap.order) = Cardinality(DOMAIN omap.base)

\* C14: insert or entry of a key the map already holds leaves the order
\* sequence as it was, of a new key appends it once; inserting again the
\* pair the map already holds leaves order and value as they were.
C14_OrderFrame ==
    lastOp # None =>
      LET k == lastOp[1].k
      IN /\ k \in DOMAIN oprev.base => omap.order = oprev.order
         /\ k \notin DOMAIN oprev.base => omap.order = Append(oprev.order, k)
         /\ (/\ lastOp[1].op = "insert"
             /\ k \in DOMAIN oprev.base
             /\ oprev.base[k] = lastOp[1].v) => omap = oprev


\* the positions of the character c in s
Positions(s, c) == {i \in 1..Len(s) : s[i] = c}

\* the text of s before / after its first c (all of s / nothing without c)
BeforeFirst(s, c) ==
    IF Positions(s, c) = {} THEN s
    ELSE SubSeq(s, 1, (CHOOSE i \in Positions(s, c) :
                          \A j \in Positions(s, c) : i <= j) - 1)
AfterFirst(s, c) ==
    IF Positions(s, c) = {} THEN <<>>
    ELSE SubSeq(s, (CHOOSE i \in Positions(s, c) :
                       \A j \in Positions(s, c) : i <= j) + 1, Len(s))

\* the content of a line: the text before the first ';', trimmed
Content(l) == trim(BeforeFirst(l, ";"))

\* s without its leading and trailing '[' and ']' characters
Interior(s) ==
    LET In == {i \in 1..Len(s) : s[i] \notin {"[", "]"}}
    IN IF In = {} THEN <<>>
       ELSE SubSeq(s, CHOOSE i \in In : \A j \in In : i <= j,
                      CHOOSE i \in In : \A j \in In : j <= i)

\* C16: content that starts with '[' is a section header when it also ends
\* with ']', named by its interior without the brackets and trimmed (the
\* empty name included), and "incorrect section syntax" otherwise, whether
\* or not it contains '='.
C16_SectionHeaderLine ==
    (/\ parsed # None
     /\ Content(pline) # <<>>
     /\ Head(Content(pline)) = "[")
    => LET c == Content(pline)
       IN IF c[Len(c)] = "]"
          THEN parsed[1] = Parsed_Section(trim(Interior(c)))
          ELSE parsed[1] = Parsed_Error("incorrect section syntax")

\* C17: content that does not start with '[' and contains '=' is split at
\* its first '=' into the trimmed key and the trimmed value, "empty key"
\* when the key is empty; without '=' it is "incorrect syntax".
C17_KeyValueLine ==
    (/\ parsed # None
     /\ Content(pline) # <<>>
     /\ Head(Content(pline)) # "[")
    => LET c == Content(pline)
           key == trim(BeforeFirst(c, "="))
           value == trim(AfterFirst(c, "="))
       IN IF Positions(c, "=") = {}
          THEN parsed[1] = Parsed_Error("incorrect syntax")
          ELSE IF key = <<>> THEN parsed[1] = Parsed_Error("empty key")
          ELSE parsed[1] = Parsed_Value(key, value)

\* an entry whose value holds a further '='
C17_Witness ==
    /\ parsed # None
    /\ parsed[1].tag = "Value"
    /\ Positions(parsed[1].value, "=") # {}

============================================================================
